---- MODULE Spec2Model ----
(***************************************************************************)
(* A model of the UnrealHTLC contract (src/src/htlc.rs): the lock registry, *)
(* the relayer set, and the public methods that read and write them.        *)
(*                                                                          *)
(* Every public method is one action: a NEAR call runs to completion, and a *)
(* panic (require!, overflow check) rolls its writes back, so a failing     *)
(* call leaves the contract state as it was.  The promises the calls create *)
(* are collected in the bag `promises`.                                     *)
(*                                                                          *)
(* Timestamps are u64 values in one unit throughout, as in the code; the   *)
(* u64 range is scaled down to 0..MaxU64 and the factor 3600 *              *)
(* 1_000_000_000 of htlc.rs:130 to NANOS_PER_HOUR units, so that the        *)
(* arithmetic of that line is done as the code does it, modulo MaxU64 + 1,  *)
(* which need not be a whole number of hours.  Prepaid gas is taken to be   *)
(* enough for the gas arithmetic of                                         *)
(* htlc.rs:176,184,246,290,334.                                             *)
(***************************************************************************)
EXTENDS Integers, Sequences, FiniteSets, Bags, TLC

VARIABLES
    token,            \* UnrealHTLC.token
    owner_id,         \* UnrealHTLC.owner_id
    lock_contracts,   \* UnrealHTLC.lock_contracts: lock id -> LockContract
    relayers,         \* UnrealHTLC.relayers: the keys mapped to true
    block_timestamp,  \* env::block_timestamp()
    promises,         \* bag of the cross-contract calls requested so far
    funding,          \* lock id -> outcome of its ft_transfer_call promise
    transfers,        \* lock id -> outcome of its ft_transfer promise
    call              \* the most recent call: its method, the lock id it was
                      \* given or returned, and OK or its panic message

vars == <<token, owner_id, lock_contracts, relayers, block_timestamp,
          promises, funding, transfers, call>>

(* Bounds of the model *)
MaxLocks == 1
MaxU64 == 2
MaxMints == 2

(* Identities.  "al" and "alal" are chosen so that two different            *)
(* (recipient, caller) pairs have the same concatenated bytes.              *)
Accounts == {"al", "alal", "own"}
DEPLOYER == "own"
CONTRACT == "htlc"
TOKEN == "token"

(* The inputs the environment draws from. *)
Preimages == {"", "s3cr3t"}
RelayerCandidates == {"al"}
MintAmounts == {1}
Destinations == {"alal"}
TARGET_CHAIN == "1"
TARGET_ADDRESS == "0xabc"

(* `call.result` of a call that returns (withdraw, refund and             *)
(* complete_swap return true, initiate_swap the lock id); a call that      *)
(* panics has its panic message there.                                      *)
OK == "ok"

(* env::sha256: a digest, modelled as collision-free on its input bytes. *)
Sha256(bytes) == <<"sha256", bytes>>

(* The initiate_swap calls the environment makes: a one-hour swap from al  *)
(* to alal, a swap back with the empty secret that expires at once, and a  *)
(* request for no tokens.                                                   *)
SwapRequests ==
    {[caller |-> "al", secret_hash |-> Sha256("s3cr3t"), recipient |-> "alal",
      amount |-> 1, timeout_hours |-> 1],
     [caller |-> "alal", secret_hash |-> Sha256(""), recipient |-> "al",
      amount |-> 2, timeout_hours |-> 0],
     [caller |-> "al", secret_hash |-> Sha256("s3cr3t"), recipient |-> "alal",
      amount |-> 0, timeout_hours |-> 1]}

(* The factor 3600 * 1_000_000_000 of htlc.rs:130, scaled down with the    *)
(* u64 range.                                                               *)
NANOS_PER_HOUR == 2

(* A request whose timeout, in nanoseconds, does not fit in u64 by itself. *)
OverflowRequests ==
    {[caller |-> "al", secret_hash |-> Sha256("s3cr3t"), recipient |-> "alal",
      amount |-> 1, timeout_hours |-> (MaxU64 \div NANOS_PER_HOUR) + 1]}

(* An id no initiate_swap derives. *)
ABSENT_ID == Sha256(<<"absent">>)

(* u64 arithmetic of htlc.rs:130: the wrapped product                      *)
(* timeout_hours * 3600 * 1_000_000_000 and its sum with the timestamp.     *)
HoursToNanos(timeout_hours) == (timeout_hours * NANOS_PER_HOUR) % (MaxU64 + 1)

(* The product alone exceeds u64; the sum of the (wrapped) product and the *)
(* timestamp exceeds u64.                                                   *)
MulOverflows(timeout_hours) == timeout_hours * NANOS_PER_HOUR > MaxU64

AddOverflows(ts, timeout_hours) == ts + HoursToNanos(timeout_hours) > MaxU64

EndtimeOverflows(ts, timeout_hours) ==
    \/ MulOverflows(timeout_hours)
    \/ AddOverflows(ts, timeout_hours)

Endtime(ts, timeout_hours) == (ts + HoursToNanos(timeout_hours)) % (MaxU64 + 1)

(* htlc.rs:133-145: the digest of the concatenated bytes.  The two account *)
(* ids are variable-length and concatenated without a separator; the other *)
(* fields have a fixed width.                                               *)
LockId(secret_hash, recipient, caller, amount, endtime, ts) ==
    Sha256(<<secret_hash, recipient \o caller, amount, endtime, ts>>)

has_lock_contract(id) == id \in DOMAIN lock_contracts

is_relayer(account_id) == account_id \in relayers

assert_owner(caller) == caller = owner_id

(* A cross-contract call: the method, its receiver_id and amount arguments, *)
(* the account that issues it, which is the contract itself for every call  *)
(* the contract makes, and the lock on whose behalf it was created (NO_LOCK *)
(* for a mint).                                                             *)
Promise(method, receiver_id, amount, id) ==
    [method |-> method, receiver_id |-> receiver_id, amount |-> amount,
     predecessor_id |-> CONTRACT, lock_contract_id |-> id]

(* The account whose tokens an ft_transfer or ft_transfer_call moves: the   *)
(* methods of htlc.rs:455-462 take a receiver and an amount and no source,  *)
(* so the ledger can only take the tokens of the account that calls it.     *)
TransferFrom(p) == p.predecessor_id

NO_LOCK == <<"none">>

(* The callback the contract chains to a promise with .then(): only the     *)
(* ft_transfer_call of initiate_swap has one.                                *)
Callback(p) ==
    IF p.method = "ft_transfer_call" THEN "on_ft_transfer_call" ELSE "none"

Request(p) == promises (+) SetToBag({p})

Called(method, id, result) ==
    [method |-> method, lock_contract_id |-> id, result |-> result]

----------------------------------------------------------------------------
(* new *)
Init ==
    /\ token = TOKEN
    /\ owner_id = DEPLOYER
    /\ lock_contracts = << >>
    /\ relayers = {}
    /\ block_timestamp = 0
    /\ promises = EmptyBag
    /\ funding = << >>
    /\ transfers = << >>
    /\ call = Called("new", NO_LOCK, OK)

(* The block timestamp never decreases.  The clock is advanced an hour at  *)
(* a time, within u64.                                                      *)
Tick ==
    /\ block_timestamp + NANOS_PER_HOUR <= MaxU64
    /\ block_timestamp' = block_timestamp + NANOS_PER_HOUR
    /\ UNCHANGED <<token, owner_id, lock_contracts, relayers, promises, funding, transfers, call>>

----------------------------------------------------------------------------
(* add_relayer, remove_relayer *)
(* Mutant: add_relayer does not ask who is calling. *)
add_relayer_by_anyone(caller, account_id) ==
    /\ relayers' = relayers \cup {account_id}
    /\ call' = Called("add_relayer", NO_LOCK, OK)
    /\ UNCHANGED <<token, owner_id, lock_contracts, block_timestamp, promises, funding, transfers>>

add_relayer(caller, account_id) ==
    /\ IF assert_owner(caller)
       THEN /\ relayers' = relayers \cup {account_id}
            /\ call' = Called("add_relayer", NO_LOCK, OK)
       ELSE /\ UNCHANGED relayers
            /\ call' = Called("add_relayer", NO_LOCK, "Not the owner")
    /\ UNCHANGED <<token, owner_id, lock_contracts, block_timestamp, promises, funding, transfers>>

remove_relayer(caller, account_id) ==
    /\ IF assert_owner(caller)
       THEN /\ relayers' = relayers \ {account_id}
            /\ call' = Called("remove_relayer", NO_LOCK, OK)
       ELSE /\ UNCHANGED relayers
            /\ call' = Called("remove_relayer", NO_LOCK, "Not the owner")
    /\ UNCHANGED <<token, owner_id, lock_contracts, block_timestamp, promises, funding, transfers>>

----------------------------------------------------------------------------
(* initiate_swap.  `checked` is whether this build panics on u64 overflow  *)
(* (overflow-checks) or wraps.                                              *)
(* Mutant: a zero amount is accepted. *)
initiate_swap_check_no_amount_guard(caller, secret_hash, recipient, amount, timeout_hours, checked) ==
    IF checked /\ MulOverflows(timeout_hours)
    THEN "attempt to multiply with overflow"
    ELSE IF checked /\ AddOverflows(block_timestamp, timeout_hours)
    THEN "attempt to add with overflow"
    ELSE IF has_lock_contract(LockId(secret_hash, recipient, caller, amount,
                                     Endtime(block_timestamp, timeout_hours),
                                     block_timestamp))
    THEN "Lock contract already exists"
    ELSE OK

(* Mutant: an id already in the registry is accepted again. *)
initiate_swap_check_no_duplicate_guard(caller, secret_hash, recipient, amount, timeout_hours, checked) ==
    IF ~(amount > 0) THEN "Amount must be greater than 0"
    ELSE IF checked /\ MulOverflows(timeout_hours)
    THEN "attempt to multiply with overflow"
    ELSE IF checked /\ AddOverflows(block_timestamp, timeout_hours)
    THEN "attempt to add with overflow"
    ELSE OK

initiate_swap_check(caller, secret_hash, recipient, amount, timeout_hours, checked) ==
    IF ~(amount > 0) THEN "Amount must be greater than 0"
    ELSE IF checked /\ MulOverflows(timeout_hours)
    THEN "attempt to multiply with overflow"
    ELSE IF checked /\ AddOverflows(block_timestamp, timeout_hours)
    THEN "attempt to add with overflow"
    ELSE IF has_lock_contract(LockId(secret_hash, recipient, caller, amount,
                                     Endtime(block_timestamp, timeout_hours),
                                     block_timestamp))
    THEN "Lock contract already exists"
    ELSE OK

NewLockContract(caller, secret_hash, recipient, amount, endtime, target_chain, target_address) ==
    [secret_hash |-> secret_hash,
     recipient |-> recipient,
     sender |-> caller,
     amount |-> amount,
     endtime |-> endtime,
     withdrawn |-> FALSE,
     refunded |-> FALSE,
     preimage |-> "",
     target_chain |-> target_chain,
     target_address |-> target_address]

Insert(map, k, v) == [x \in DOMAIN map \cup {k} |-> IF x = k THEN v ELSE map[x]]

initiate_swap(caller, secret_hash, recipient, amount, timeout_hours, target_chain, target_address, checked) ==
    LET endtime == Endtime(block_timestamp, timeout_hours)
        id == LockId(secret_hash, recipient, caller, amount, endtime, block_timestamp)
        r == initiate_swap_check(caller, secret_hash, recipient, amount, timeout_hours, checked)
    IN  /\ IF r = OK
           THEN /\ lock_contracts' =
                     Insert(lock_contracts, id,
                            NewLockContract(caller, secret_hash, recipient, amount,
                                            endtime, target_chain, target_address))
                /\ promises' = Request(Promise("ft_transfer_call", CONTRACT, amount, id))
                /\ funding' = Insert(funding, id, "pending")
                /\ call' = Called("initiate_swap", id, OK)
           ELSE /\ UNCHANGED <<lock_contracts, promises, funding>>
                /\ call' = Called("initiate_swap", NO_LOCK, r)
        /\ UNCHANGED <<token, owner_id, relayers, block_timestamp, transfers>>

(* on_ft_transfer_call: #[private], so any caller but the contract itself  *)
(* is turned away.  The contract calls it once per funding promise, with   *)
(* that promise's result (`success`), which `funding` then records.         *)
(* Mutant: a failed funding transfer takes the lock out of the registry. *)
on_ft_transfer_call_rollback(caller, id, success) ==
    /\ IF caller # CONTRACT
       THEN /\ call' = Called("on_ft_transfer_call", NO_LOCK,
                              "Method on_ft_transfer_call is private")
            /\ UNCHANGED <<funding, lock_contracts>>
       ELSE /\ id \in DOMAIN funding
            /\ funding[id] = "pending"
            /\ funding' = [funding EXCEPT ![id] = IF success THEN "confirmed" ELSE "failed"]
            /\ lock_contracts' =
                  IF success THEN lock_contracts
                  ELSE [x \in DOMAIN lock_contracts \ {id} |-> lock_contracts[x]]
            /\ call' = Called("on_ft_transfer_call", id,
                              IF success THEN OK ELSE "Token transfer failed")
    /\ UNCHANGED <<token, owner_id, relayers, block_timestamp, promises, transfers>>

(* Mutant: a failed funding transfer marks the lock refunded. *)
on_ft_transfer_call_cancels(caller, id, success) ==
    /\ IF caller # CONTRACT
       THEN /\ call' = Called("on_ft_transfer_call", NO_LOCK,
                              "Method on_ft_transfer_call is private")
            /\ UNCHANGED <<funding, lock_contracts>>
       ELSE /\ id \in DOMAIN funding
            /\ funding[id] = "pending"
            /\ funding' = [funding EXCEPT ![id] = IF success THEN "confirmed" ELSE "failed"]
            /\ lock_contracts' =
                  IF success THEN lock_contracts
                  ELSE [lock_contracts EXCEPT ![id].refunded = TRUE]
            /\ call' = Called("on_ft_transfer_call", id,
                              IF success THEN OK ELSE "Token transfer failed")
    /\ UNCHANGED <<token, owner_id, relayers, block_timestamp, promises, transfers>>

on_ft_transfer_call(caller, id, success) ==
    /\ IF caller # CONTRACT
       THEN /\ call' = Called("on_ft_transfer_call", NO_LOCK,
                              "Method on_ft_transfer_call is private")
            /\ UNCHANGED funding
       ELSE /\ id \in DOMAIN funding
            /\ funding[id] = "pending"
            /\ funding' = [funding EXCEPT ![id] = IF success THEN "confirmed" ELSE "failed"]
            /\ call' = Called("on_ft_transfer_call", id,
                              IF success THEN OK ELSE "Token transfer failed")
    /\ UNCHANGED <<token, owner_id, lock_contracts, relayers, block_timestamp, promises, transfers>>

----------------------------------------------------------------------------
(* withdraw *)
(* Mutant: withdraw is refused once the timelock has expired. *)
withdraw_check_until_endtime(caller, id, preimage) ==
    IF ~has_lock_contract(id) THEN "Lock contract does not exist"
    ELSE IF ~(caller = lock_contracts[id].recipient) THEN "Not the recipient"
    ELSE IF lock_contracts[id].withdrawn THEN "Already withdrawn"
    ELSE IF lock_contracts[id].refunded THEN "Already refunded"
    ELSE IF block_timestamp >= lock_contracts[id].endtime THEN "Timelock expired"
    ELSE IF ~(Sha256(preimage) = lock_contracts[id].secret_hash)
    THEN "Secret hash does not match"
    ELSE OK

(* Mutant: the settled checks come before the caller check. *)
withdraw_check_status_first(caller, id, preimage) ==
    IF ~has_lock_contract(id) THEN "Lock contract does not exist"
    ELSE IF lock_contracts[id].withdrawn THEN "Already withdrawn"
    ELSE IF lock_contracts[id].refunded THEN "Already refunded"
    ELSE IF ~(caller = lock_contracts[id].recipient) THEN "Not the recipient"
    ELSE IF ~(Sha256(preimage) = lock_contracts[id].secret_hash)
    THEN "Secret hash does not match"
    ELSE OK

(* Mutant: any preimage is accepted. *)
withdraw_check_no_secret_guard(caller, id, preimage) ==
    IF ~has_lock_contract(id) THEN "Lock contract does not exist"
    ELSE IF ~(caller = lock_contracts[id].recipient) THEN "Not the recipient"
    ELSE IF lock_contracts[id].withdrawn THEN "Already withdrawn"
    ELSE IF lock_contracts[id].refunded THEN "Already refunded"
    ELSE OK

(* Mutant: a withdrawn lock can be withdrawn again. *)
withdraw_check_no_withdrawn_guard(caller, id, preimage) ==
    IF ~has_lock_contract(id) THEN "Lock contract does not exist"
    ELSE IF ~(caller = lock_contracts[id].recipient) THEN "Not the recipient"
    ELSE IF lock_contracts[id].refunded THEN "Already refunded"
    ELSE IF ~(Sha256(preimage) = lock_contracts[id].secret_hash)
    THEN "Secret hash does not match"
    ELSE OK

withdraw_check(caller, id, preimage) ==
    IF ~has_lock_contract(id) THEN "Lock contract does not exist"
    ELSE IF ~(caller = lock_contracts[id].recipient) THEN "Not the recipient"
    ELSE IF lock_contracts[id].withdrawn THEN "Already withdrawn"
    ELSE IF lock_contracts[id].refunded THEN "Already refunded"
    ELSE IF ~(Sha256(preimage) = lock_contracts[id].secret_hash)
    THEN "Secret hash does not match"
    ELSE OK

(* Mutant: the preimage is stored but the lock is not marked withdrawn. *)
withdraw_update_keeps_open(lc, preimage) ==
    [lc EXCEPT !.preimage = preimage]

(* Mutant: withdrawing clears the amount of the record. *)
withdraw_update_clears_amount(lc, preimage) ==
    [lc EXCEPT !.preimage = preimage, !.withdrawn = TRUE, !.amount = 0]

(* Mutant: withdrawing marks the record but does not store the preimage. *)
withdraw_update_drops_preimage(lc, preimage) ==
    [lc EXCEPT !.withdrawn = TRUE]

withdraw_update(lc, preimage) ==
    [lc EXCEPT !.preimage = preimage, !.withdrawn = TRUE]

withdraw_transfer(lc, id) ==
    Promise("ft_transfer", lc.recipient, lc.amount, id)

withdraw(caller, id, preimage) ==
    LET r == withdraw_check(caller, id, preimage) IN
    /\ IF r = OK
       THEN /\ lock_contracts' =
                 [lock_contracts EXCEPT ![id] = withdraw_update(lock_contracts[id], preimage)]
            /\ promises' = Request(withdraw_transfer(lock_contracts'[id], id))
            /\ transfers' = Insert(transfers, id, "pending")
            /\ call' = Called("withdraw", id, OK)
       ELSE /\ UNCHANGED <<lock_contracts, promises, transfers>>
            /\ call' = Called("withdraw", id, r)
    /\ UNCHANGED <<token, owner_id, relayers, block_timestamp, funding>>

(* refund *)
(* Mutant: refund forgets that a withdrawn lock is settled. *)
refund_check_no_withdrawn_guard(caller, id) ==
    IF ~has_lock_contract(id) THEN "Lock contract does not exist"
    ELSE IF ~(caller = lock_contracts[id].sender) THEN "Not the sender"
    ELSE IF lock_contracts[id].refunded THEN "Already refunded"
    ELSE IF ~(block_timestamp >= lock_contracts[id].endtime) THEN "Timelock not expired"
    ELSE OK

(* Mutant: the deadline itself does not yet permit the refund. *)
refund_check_after_endtime(caller, id) ==
    IF ~has_lock_contract(id) THEN "Lock contract does not exist"
    ELSE IF ~(caller = lock_contracts[id].sender) THEN "Not the sender"
    ELSE IF lock_contracts[id].withdrawn THEN "Already withdrawn"
    ELSE IF lock_contracts[id].refunded THEN "Already refunded"
    ELSE IF ~(block_timestamp > lock_contracts[id].endtime) THEN "Timelock not expired"
    ELSE OK

(* Mutant: a refund is granted only for a lock whose funding was confirmed. *)
refund_check_funded_only(caller, id) ==
    IF ~has_lock_contract(id) THEN "Lock contract does not exist"
    ELSE IF ~(caller = lock_contracts[id].sender) THEN "Not the sender"
    ELSE IF lock_contracts[id].withdrawn THEN "Already withdrawn"
    ELSE IF lock_contracts[id].refunded THEN "Already refunded"
    ELSE IF ~(block_timestamp >= lock_contracts[id].endtime) THEN "Timelock not expired"
    ELSE IF ~(funding[id] = "confirmed") THEN "Lock was not funded"
    ELSE OK

refund_check(caller, id) ==
    IF ~has_lock_contract(id) THEN "Lock contract does not exist"
    ELSE IF ~(caller = lock_contracts[id].sender) THEN "Not the sender"
    ELSE IF lock_contracts[id].withdrawn THEN "Already withdrawn"
    ELSE IF lock_contracts[id].refunded THEN "Already refunded"
    ELSE IF ~(block_timestamp >= lock_contracts[id].endtime) THEN "Timelock not expired"
    ELSE OK

(* Mutant: the refund is paid out without marking the lock refunded. *)
refund_update_keeps_open(lc) ==
    lc

refund_update(lc) ==
    [lc EXCEPT !.refunded = TRUE]

(* Mutant: the refund is sent to the recipient. *)
refund_transfer_to_recipient(lc, id) ==
    Promise("ft_transfer", lc.recipient, lc.amount, id)

refund_transfer(lc, id) ==
    Promise("ft_transfer", lc.sender, lc.amount, id)

refund(caller, id) ==
    LET r == refund_check(caller, id) IN
    /\ IF r = OK
       THEN /\ lock_contracts' =
                 [lock_contracts EXCEPT ![id] = refund_update(lock_contracts[id])]
            /\ promises' = Request(refund_transfer(lock_contracts'[id], id))
            /\ transfers' = Insert(transfers, id, "pending")
            /\ call' = Called("refund", id, OK)
       ELSE /\ UNCHANGED <<lock_contracts, promises, transfers>>
            /\ call' = Called("refund", id, r)
    /\ UNCHANGED <<token, owner_id, relayers, block_timestamp, funding>>

----------------------------------------------------------------------------
(* The token ledger answers the ft_transfer of a settled lock.  withdraw    *)
(* and refund attach no callback to that promise, so no method of the      *)
(* contract runs and the contract's state stays as it is.                   *)
ft_transfer_result(id, success) ==
    /\ id \in DOMAIN transfers
    /\ transfers[id] = "pending"
    /\ transfers' = [transfers EXCEPT ![id] = IF success THEN "succeeded" ELSE "failed"]
    /\ UNCHANGED <<token, owner_id, lock_contracts, relayers, block_timestamp, promises, funding, call>>

----------------------------------------------------------------------------
(* complete_swap *)
Mints == [p \in {q \in BagToSet(promises) : q.method = "ft_mint"} |-> promises[p]]

(* Mutant: the owner may complete swaps without being a relayer. *)
complete_swap_check_or_owner(caller) ==
    IF ~(is_relayer(caller) \/ caller = owner_id) THEN "Not an authorized relayer"
    ELSE OK

complete_swap_check(caller) ==
    IF ~is_relayer(caller) THEN "Not an authorized relayer"
    ELSE OK

(* Mutant: a mint that was already requested is not requested again. *)
complete_swap_mint_once(destination, amount) ==
    IF BagIn(Promise("ft_mint", destination, amount, NO_LOCK), promises)
    THEN promises
    ELSE Request(Promise("ft_mint", destination, amount, NO_LOCK))

complete_swap_mint(destination, amount) ==
    Request(Promise("ft_mint", destination, amount, NO_LOCK))

complete_swap(caller, source_chain, source_address, destination, amount, preimage) ==
    LET r == complete_swap_check(caller) IN
    /\ IF r = OK
       THEN /\ promises' = complete_swap_mint(destination, amount)
            /\ call' = Called("complete_swap", NO_LOCK, OK)
       ELSE /\ UNCHANGED promises
            /\ call' = Called("complete_swap", NO_LOCK, r)
    /\ UNCHANGED <<token, owner_id, lock_contracts, relayers, block_timestamp, funding, transfers>>

----------------------------------------------------------------------------
(* execute_on_evm.  Its String arguments are sequences of UTF-8 bytes, the *)
(* unit str::len counts in: an ASCII character is the one-character string *)
(* of itself, any other byte is written as its two hexadecimal digits, so  *)
(* that U+00E9 is <<"C3", "A9">>.                                           *)
Digits == {"0", "1", "2", "3", "4", "5", "6", "7", "8", "9"}

DigitValue(c) ==
    CASE c = "0" -> 0 [] c = "1" -> 1 [] c = "2" -> 2 [] c = "3" -> 3 [] c = "4" -> 4
      [] c = "5" -> 5 [] c = "6" -> 6 [] c = "7" -> 7 [] c = "8" -> 8 [] c = "9" -> 9

(* u64::MAX, 18446744073709551615, digit by digit. *)
U64_MAX == <<"1", "8", "4", "4", "6", "7", "4", "4", "0", "7", "3", "7", "0", "9", "5", "5", "1", "6", "1", "5">>

RECURSIVE StripZeros(_)
StripZeros(s) == IF Len(s) > 1 /\ s[1] = "0" THEN StripZeros(Tail(s)) ELSE s

(* a <= b for two digit strings of the same length *)
RECURSIVE DigitsLeq(_, _)
DigitsLeq(a, b) ==
    IF a = << >> THEN TRUE
    ELSE IF DigitValue(a[1]) # DigitValue(b[1]) THEN DigitValue(a[1]) < DigitValue(b[1])
    ELSE DigitsLeq(Tail(a), Tail(b))

(* str::parse::<u64> returns Ok: an optional "+", then one or more decimal *)
(* digits whose value fits in 64 bits.                                      *)
ParsesAsU64(s) ==
    LET digits == IF Len(s) > 0 /\ s[1] = "+" THEN Tail(s) ELSE s
        value == StripZeros(digits)
    IN  /\ Len(digits) > 0
        /\ \A i \in 1..Len(digits) : digits[i] \in Digits
        /\ \/ Len(value) < Len(U64_MAX)
           \/ Len(value) = Len(U64_MAX) /\ DigitsLeq(value, U64_MAX)

StartsWith0x(s) == Len(s) >= 2 /\ s[1] = "0" /\ s[2] = "x"

execute_on_evm_check(caller, evm_chain_id, contract_address, calldata) ==
    IF ~(is_relayer(caller) \/ caller = owner_id)
    THEN "Only relayers or owner can execute cross-chain operations"
    ELSE IF ~ParsesAsU64(evm_chain_id) THEN "Invalid EVM chain ID format"
    ELSE IF ~StartsWith0x(contract_address) \/ Len(contract_address) # 42
    THEN "Invalid EVM contract address format"
    ELSE IF calldata = << >> THEN "Calldata cannot be empty"
    ELSE OK

(* The promise it returns is an empty batch on the contract's own account: *)
(* it calls nothing, and is not entered in `promises`.                      *)
execute_on_evm(caller, evm_chain_id, contract_address, calldata, gas_limit) ==
    /\ call' = Called("execute_on_evm", NO_LOCK,
                      execute_on_evm_check(caller, evm_chain_id, contract_address, calldata))
    /\ UNCHANGED <<token, owner_id, lock_contracts, relayers, block_timestamp, promises, funding, transfers>>

(* get_lock_contract: the view of a record, or None. *)
get_lock_contract(id) ==
    IF id \in DOMAIN lock_contracts THEN <<"Some", lock_contracts[id]>> ELSE <<"None">>

(* A view call: it answers from the state and writes nothing. *)
View(method, id, answer) ==
    /\ call' = Called(method, id, answer)
    /\ UNCHANGED <<token, owner_id, lock_contracts, relayers, block_timestamp, promises, funding, transfers>>

view_has_lock_contract(id) ==
    View("has_lock_contract", id, IF has_lock_contract(id) THEN "true" ELSE "false")

view_get_lock_contract(id) ==
    View("get_lock_contract", id, get_lock_contract(id)[1])

view_is_relayer(account_id) ==
    View("is_relayer", NO_LOCK, IF is_relayer(account_id) THEN "true" ELSE "false")

(* Arguments tried for execute_on_evm. *)
Repeat(c, n) == [i \in 1..n |-> c]

U64_MAX_PLUS_1 == <<"1", "8", "4", "4", "6", "7", "4", "4", "0", "7", "3", "7", "0", "9", "5", "5", "1", "6", "1", "6">>

HEX_ADDRESS == <<"0", "x">> \o Repeat("a", 40)

(* n times U+00E9, two bytes each. *)
E_ACUTE(n) == [i \in 1..(2 * n) |-> IF i % 2 = 1 THEN "C3" ELSE "A9"]

EvmCall(evm_chain_id, contract_address, calldata) ==
    [evm_chain_id |-> evm_chain_id, contract_address |-> contract_address,
     calldata |-> calldata]

EvmRequests ==
    { EvmCall(<<"1">>, HEX_ADDRESS, <<"0", "x">>),
      EvmCall(U64_MAX, <<"0", "x">> \o Repeat("F", 40), <<"0">>),
      EvmCall(<<"0", "0", "7">>, HEX_ADDRESS, <<"0", "x">>),
      EvmCall(<<"+", "1">>, HEX_ADDRESS, <<"0", "x">>),
      EvmCall(U64_MAX_PLUS_1, HEX_ADDRESS, <<"0", "x">>),
      EvmCall(<< >>, HEX_ADDRESS, <<"0", "x">>),
      EvmCall(<<"-", "1">>, HEX_ADDRESS, <<"0", "x">>),
      EvmCall(<<"1", "x">>, <<"0", "x">> \o Repeat("a", 39), << >>),
      EvmCall(<<"1">>, <<"0", "x">> \o Repeat("z", 40), <<"0", "x">>),
      EvmCall(<<"1">>, <<"0", "x">> \o Repeat("a", 39), <<"0", "x">>),
      EvmCall(<<"1">>, <<"0", "X">> \o Repeat("a", 40), <<"0", "x">>),
      EvmCall(<<"1">>, Repeat("a", 42), <<"0", "x">>),
      EvmCall(<<"1">>, << >>, <<"0", "x">>),
      EvmCall(<<"1">>, HEX_ADDRESS, << >>),
      EvmCall(<<"1">>, <<"0", "x">> \o E_ACUTE(20), <<"0", "x">>),
      EvmCall(<<"1">>, <<"0", "x">> \o E_ACUTE(40), <<"0", "x">>) }

----------------------------------------------------------------------------
LockIds == DOMAIN lock_contracts \cup {ABSENT_ID}

(* A successful initiate_swap for request q would leave at most `max`     *)
(* locks in the registry.                                                   *)
Room(q, checked, max) ==
    initiate_swap_check(q.caller, q.secret_hash, q.recipient, q.amount, q.timeout_hours, checked) = OK
        => Cardinality(DOMAIN lock_contracts) < max

(* The calls of the swap life cycle, with at most `max` locks. *)
SwapCalls(max) ==
    \/ \E q \in SwapRequests, checked \in BOOLEAN :
            /\ Room(q, checked, max)
            /\ initiate_swap(q.caller, q.secret_hash, q.recipient, q.amount, q.timeout_hours,
                             TARGET_CHAIN, TARGET_ADDRESS, checked)
    \/ \E id \in DOMAIN funding, success \in BOOLEAN :
            on_ft_transfer_call(CONTRACT, id, success)
    \/ \E caller \in Accounts, id \in DOMAIN funding :
            on_ft_transfer_call(caller, id, TRUE)
    \/ \E caller \in Accounts, id \in LockIds, preimage \in Preimages :
            withdraw(caller, id, preimage)
    \/ \E caller \in Accounts, id \in LockIds : refund(caller, id)

(* The calls of the relayer set and of the completion handler. *)
RelayerCalls ==
    \/ \E caller \in Accounts, account_id \in RelayerCandidates :
            add_relayer(caller, account_id)
    \/ \E caller \in Accounts, account_id \in RelayerCandidates :
            remove_relayer(caller, account_id)
    \/ \E caller \in Accounts, destination \in Destinations, amount \in MintAmounts :
            /\ is_relayer(caller) => BagCardinality(Mints) < MaxMints
            /\ complete_swap(caller, "1", "0xabc", destination, amount, "s3cr3t")

Next ==
    \/ Tick
    \/ SwapCalls(MaxLocks)
    \/ RelayerCalls

Spec == Init /\ [][Next]_vars

(* The swap life cycle together with the ledger's answers to the           *)
(* ft_transfer promises.                                                    *)
LedgerNext ==
    \/ Tick
    \/ SwapCalls(MaxLocks)
    \/ \E id \in DOMAIN transfers, success \in BOOLEAN : ft_transfer_result(id, success)

LedgerSpec == Init /\ [][LedgerNext]_vars

(* The swap life cycle with, in addition, a timeout so long that the       *)
(* product of htlc.rs:130 overflows.                                        *)
OverflowNext ==
    \/ Tick
    \/ SwapCalls(MaxLocks)
    \/ \E q \in OverflowRequests, checked \in BOOLEAN :
            /\ Room(q, checked, MaxLocks)
            /\ initiate_swap(q.caller, q.secret_hash, q.recipient, q.amount, q.timeout_hours,
                             TARGET_CHAIN, TARGET_ADDRESS, checked)

OverflowSpec == Init /\ [][OverflowNext]_vars

(* The swap life cycle with a clock that keeps advancing and a sender who  *)
(* gets to refund: the refund of a lock by its sender, once it passes all  *)
(* guards, is not postponed forever.  Nothing is assumed of the recipient,  *)
(* of the funding callback or of the ledger's answers.                      *)
PossibleLockIds ==
    {LockId(q.secret_hash, q.recipient, q.caller, q.amount,
            Endtime(ts, q.timeout_hours), ts) :
        q \in {r \in SwapRequests : r.amount > 0}, ts \in 0..MaxU64}

SenderRefund(id) ==
    /\ has_lock_contract(id)
    /\ refund_check(lock_contracts[id].sender, id) = OK
    /\ refund(lock_contracts[id].sender, id)

Fairness ==
    /\ WF_vars(Tick)
    /\ \A id \in PossibleLockIds : WF_vars(SenderRefund(id))

(* The calls that name a registered lock, by every account, the funding   *)
(* callback with either result, and the ledger's answers to the payouts.   *)
FairNext ==
    \/ Tick
    \/ \E q \in SwapRequests, checked \in BOOLEAN :
            /\ Room(q, checked, MaxLocks)
            /\ initiate_swap(q.caller, q.secret_hash, q.recipient, q.amount, q.timeout_hours,
                             TARGET_CHAIN, TARGET_ADDRESS, checked)
    \/ \E id \in DOMAIN funding, success \in BOOLEAN :
            on_ft_transfer_call(CONTRACT, id, success)
    \/ \E caller \in Accounts, id \in DOMAIN lock_contracts, preimage \in Preimages :
            withdraw(caller, id, preimage)
    \/ \E caller \in Accounts, id \in DOMAIN lock_contracts : refund(caller, id)
    \/ \E id \in DOMAIN transfers, success \in BOOLEAN : ft_transfer_result(id, success)

FairSpec == Init /\ [][FairNext]_vars /\ Fairness

(* The relayer set and the methods it guards: every account may be put in *)
(* it, complete_swap is called with several destinations and amounts and   *)
(* execute_on_evm with every request; initiate_swap fills the registry.    *)
CompletionAmounts == {0, 1}
CompletionDestinations == {"alal", "own"}

RelayerNext ==
    \/ \E caller \in Accounts, account_id \in Accounts : add_relayer(caller, account_id)
    \/ \E caller \in Accounts, account_id \in Accounts : remove_relayer(caller, account_id)
    \/ \E caller \in Accounts, destination \in CompletionDestinations, amount \in CompletionAmounts, preimage \in Preimages :
            /\ is_relayer(caller) => BagCardinality(Mints) < MaxMints
            /\ complete_swap(caller, TARGET_CHAIN, TARGET_ADDRESS, destination, amount, preimage)
    \/ \E caller \in Accounts, q \in EvmRequests :
            execute_on_evm(caller, q.evm_chain_id, q.contract_address, q.calldata, 1)
    \/ \E q \in SwapRequests, checked \in BOOLEAN :
            /\ Room(q, checked, MaxLocks)
            /\ initiate_swap(q.caller, q.secret_hash, q.recipient, q.amount, q.timeout_hours,
                             TARGET_CHAIN, TARGET_ADDRESS, checked)

RelayerSpec == Init /\ [][RelayerNext]_vars

(* The swap life cycle within one block, with room for one more lock, so  *)
(* that a lock is created next to another one.                              *)
RegistryNext == SwapCalls(MaxLocks + 1)

RegistrySpec == Init /\ [][RegistryNext]_vars

(* Every method of the contract. *)
EvmSample ==
    { EvmCall(<<"1">>, HEX_ADDRESS, <<"0", "x">>),
      EvmCall(<<"1">>, HEX_ADDRESS, << >>) }

ContractNext ==
    \/ Next
    \/ \E caller \in Accounts, q \in EvmSample :
            execute_on_evm(caller, q.evm_chain_id, q.contract_address, q.calldata, 1)

ContractSpec == Init /\ [][ContractNext]_vars

(* Every method and every view of the contract, called within one block. *)
InterfaceNext ==
    \/ SwapCalls(MaxLocks)
    \/ RelayerCalls
    \/ \E caller \in Accounts, q \in EvmSample :
            execute_on_evm(caller, q.evm_chain_id, q.contract_address, q.calldata, 1)
    \/ \E id \in LockIds : view_has_lock_contract(id)
    \/ \E id \in LockIds : view_get_lock_contract(id)
    \/ \E account_id \in Accounts : view_is_relayer(account_id)

InterfaceSpec == Init /\ [][InterfaceNext]_vars

----------------------------------------------------------------------------
(* The vocabulary of the claims. *)

(* The status of a lock record, from its two flags. *)
Status(lc) ==
    IF lc.withdrawn /\ lc.refunded THEN "Both"
    ELSE IF lc.withdrawn THEN "Withdrawn"
    ELSE IF lc.refunded THEN "Refunded"
    ELSE "Open"

Terminal(lc) == Status(lc) # "Open"

(* The failure kind a result stands for. *)
ErrorKind(result) ==
    CASE result = OK -> "Success"
      [] result = "Amount must be greater than 0" -> "InvalidInput"
      [] result = "Lock contract already exists" -> "DuplicateLock"
      [] result = "Lock contract does not exist" -> "NotFound"
      [] result \in {"Not the recipient", "Not the sender",
                     "Not an authorized relayer", "Not the owner",
                     "Only relayers or owner can execute cross-chain operations"}
            -> "Unauthorized"
      [] result \in {"Invalid EVM chain ID format", "Invalid EVM contract address format",
                     "Calldata cannot be empty"} -> "InvalidInput"
      [] result \in {"Already withdrawn", "Already refunded"} -> "AlreadySettled"
      [] result = "Secret hash does not match" -> "SecretMismatch"
      [] result = "Timelock not expired" -> "TimelockNotExpired"
      [] result = "Token transfer failed" -> "TransferFailed"
      [] OTHER -> "Panic"

(* The ft_transfer promises requested on behalf of lock `id`, and how many. *)
TransfersFor(id) ==
    {p \in BagToSet(promises) : p.method = "ft_transfer" /\ p.lock_contract_id = id}

TransferCount(id) ==
    BagCardinality([p \in TransfersFor(id) |-> promises[p]])

(* A call left the contract as it found it. *)
NothingChanged ==
    UNCHANGED <<token, owner_id, lock_contracts, relayers, promises, funding, transfers>>

(* The step is the call of `method`: every step is a call but Tick, which  *)
(* moves the clock, and the ledger's answer to an ft_transfer, which no    *)
(* method of the contract receives.                                         *)
Returned(method) ==
    /\ call'.method = method
    /\ block_timestamp' = block_timestamp
    /\ \A id \in DOMAIN transfers : transfers'[id] = transfers[id]

----------------------------------------------------------------------------
(* C1: under every sequence of calls a lock's status changes only from     *)
(* Open to Withdrawn or from Open to Refunded: no lock ever has both flags *)
(* set, no lock leaves the registry, and a lock that is Withdrawn or       *)
(* Refunded keeps that status in every later state.                        *)
C1_NeverBoth ==
    \A id \in DOMAIN lock_contracts :
        ~(lock_contracts[id].withdrawn /\ lock_contracts[id].refunded)

C1_StatusStep ==
    \A id \in DOMAIN lock_contracts :
        /\ id \in DOMAIN lock_contracts'
        /\ Status(lock_contracts'[id]) # Status(lock_contracts[id]) =>
              /\ Status(lock_contracts[id]) = "Open"
              /\ Status(lock_contracts'[id]) \in {"Withdrawn", "Refunded"}

C1_StatusTransitions == []C1_NeverBoth /\ [][C1_StatusStep]_vars

(* A withdrawn lock whose sender has just tried to refund it. *)
C1_Witness ==
    /\ call.method = "refund"
    /\ call.result = "Already withdrawn"
    /\ call.lock_contract_id \in DOMAIN lock_contracts
    /\ Status(lock_contracts[call.lock_contract_id]) = "Withdrawn"

(* C2: for every lock at most one ft_transfer is ever requested; it is for *)
(* the lock's stored amount, and goes to the recipient of a Withdrawn lock *)
(* and to the sender of a Refunded one (an Open lock has none).            *)
C2_OneTransferPerLock ==
    /\ \A p \in BagToSet(promises) :
          p.method = "ft_transfer" => p.lock_contract_id \in DOMAIN lock_contracts
    /\ \A id \in DOMAIN lock_contracts :
          /\ TransferCount(id) <= 1
          /\ \A p \in TransfersFor(id) :
                /\ p.amount = lock_contracts[id].amount
                /\ \/ /\ Status(lock_contracts[id]) = "Withdrawn"
                      /\ p.receiver_id = lock_contracts[id].recipient
                   \/ /\ Status(lock_contracts[id]) = "Refunded"
                      /\ p.receiver_id = lock_contracts[id].sender

(* A refunded lock with its one transfer, refunded a second time in vain. *)
C2_Witness ==
    /\ call.method = "refund"
    /\ call.result = "Already refunded"
    /\ call.lock_contract_id \in DOMAIN lock_contracts
    /\ Status(lock_contracts[call.lock_contract_id]) = "Refunded"
    /\ TransferCount(call.lock_contract_id) = 1

(* C3: right after a successful initiate_swap, withdraw by the recipient   *)
(* with the secret behind secret_hash returns true; a withdraw that        *)
(* returns true makes the Open lock Withdrawn and requests an ft_transfer  *)
(* of the amount to the recipient; and in every later state a further      *)
(* withdraw by the recipient, with any preimage, and a refund by the       *)
(* sender, at any time, fail with AlreadySettled.                          *)
JustInitiated(id) ==
    /\ call.method = "initiate_swap"
    /\ call.result = OK
    /\ call.lock_contract_id = id

C3_CanWithdraw ==
    \A id \in DOMAIN lock_contracts : \A preimage \in Preimages :
        (JustInitiated(id) /\ Sha256(preimage) = lock_contracts[id].secret_hash) =>
            withdraw_check(lock_contracts[id].recipient, id, preimage) = OK

C3_WithdrawStep ==
    (Returned("withdraw") /\ call'.result = OK) =>
        LET id == call'.lock_contract_id IN
        /\ id \in DOMAIN lock_contracts
        /\ Status(lock_contracts[id]) = "Open"
        /\ Status(lock_contracts'[id]) = "Withdrawn"
        /\ promises' = promises (+) SetToBag({Promise("ft_transfer",
                           lock_contracts[id].recipient, lock_contracts[id].amount, id)})

C3_ThenSettled ==
    \A id \in DOMAIN lock_contracts :
        Status(lock_contracts[id]) = "Withdrawn" =>
            /\ \A preimage \in Preimages :
                  ErrorKind(withdraw_check(lock_contracts[id].recipient, id, preimage))
                      = "AlreadySettled"
            /\ ErrorKind(refund_check(lock_contracts[id].sender, id)) = "AlreadySettled"

C3_InitiateThenWithdraw ==
    /\ []C3_CanWithdraw
    /\ [][C3_WithdrawStep]_vars
    /\ []C3_ThenSettled

(* A withdrawn lock, its transfer requested, withdrawn a second time in vain. *)
C3_Witness ==
    /\ call.method = "withdraw"
    /\ call.result = "Already withdrawn"
    /\ call.lock_contract_id \in DOMAIN lock_contracts
    /\ Status(lock_contracts[call.lock_contract_id]) = "Withdrawn"
    /\ TransferCount(call.lock_contract_id) = 1

(* C4: for an Open lock, refund by the sender fails with                   *)
(* TimelockNotExpired while block_timestamp < endtime and returns true     *)
(* from block_timestamp = endtime on; a refund that returns true makes the *)
(* Open lock Refunded and requests an ft_transfer of the amount to the     *)
(* sender, and one that fails changes nothing.                             *)
C4_Timelock ==
    \A id \in DOMAIN lock_contracts :
        Status(lock_contracts[id]) = "Open" =>
            ErrorKind(refund_check(lock_contracts[id].sender, id)) =
                IF block_timestamp < lock_contracts[id].endtime
                THEN "TimelockNotExpired" ELSE "Success"

C4_RefundStep ==
    Returned("refund") =>
        LET id == call'.lock_contract_id IN
        IF call'.result = OK
        THEN /\ id \in DOMAIN lock_contracts
             /\ Status(lock_contracts[id]) = "Open"
             /\ block_timestamp >= lock_contracts[id].endtime
             /\ Status(lock_contracts'[id]) = "Refunded"
             /\ promises' = promises (+) SetToBag({Promise("ft_transfer",
                                lock_contracts[id].sender, lock_contracts[id].amount, id)})
        ELSE NothingChanged

C4_RefundTimelock == []C4_Timelock /\ [][C4_RefundStep]_vars

(* A lock refunded at the very timestamp of its deadline, one hour after   *)
(* it was created.                                                          *)
C4_Witness ==
    /\ call.method = "refund"
    /\ call.result = OK
    /\ Status(lock_contracts[call.lock_contract_id]) = "Refunded"
    /\ block_timestamp = lock_contracts[call.lock_contract_id].endtime
    /\ call.lock_contract_id =
          LockId(lock_contracts[call.lock_contract_id].secret_hash,
                 lock_contracts[call.lock_contract_id].recipient,
                 lock_contracts[call.lock_contract_id].sender,
                 lock_contracts[call.lock_contract_id].amount,
                 block_timestamp, block_timestamp - NANOS_PER_HOUR)

(* C5: withdraw has no deadline, and races with refund symmetrically: for  *)
(* an Open lock with block_timestamp >= endtime both withdraw (recipient,  *)
(* matching preimage) and refund (sender) would succeed; whichever of the  *)
(* two is processed first succeeds, and from then on the other fails with  *)
(* AlreadySettled.                                                         *)
Expired(id) == block_timestamp >= lock_contracts[id].endtime

C5_BothEnabled ==
    \A id \in DOMAIN lock_contracts :
        (Status(lock_contracts[id]) = "Open" /\ Expired(id)) =>
            /\ refund_check(lock_contracts[id].sender, id) = OK
            /\ \A preimage \in Preimages :
                  Sha256(preimage) = lock_contracts[id].secret_hash =>
                      withdraw_check(lock_contracts[id].recipient, id, preimage) = OK

C5_FirstWins ==
    LET id == call'.lock_contract_id IN
    /\ (Returned("withdraw") /\ call'.result = OK) =>
          /\ Status(lock_contracts[id]) = "Open"
          /\ Status(lock_contracts'[id]) = "Withdrawn"
    /\ (Returned("refund") /\ call'.result = OK) =>
          /\ Status(lock_contracts[id]) = "Open"
          /\ Status(lock_contracts'[id]) = "Refunded"

C5_LoserSettled ==
    \A id \in DOMAIN lock_contracts :
        Expired(id) =>
            /\ Status(lock_contracts[id]) = "Withdrawn" =>
                  ErrorKind(refund_check(lock_contracts[id].sender, id)) = "AlreadySettled"
            /\ Status(lock_contracts[id]) = "Refunded" =>
                  \A preimage \in Preimages :
                      ErrorKind(withdraw_check(lock_contracts[id].recipient, id, preimage))
                          = "AlreadySettled"

C5_WithdrawRefundRace ==
    /\ []C5_BothEnabled
    /\ [][C5_FirstWins]_vars
    /\ []C5_LoserSettled

(* After the deadline the sender refunded first, and the recipient's       *)
(* withdraw then failed.                                                    *)
C5_Witness ==
    /\ call.method = "withdraw"
    /\ call.result = "Already refunded"
    /\ call.lock_contract_id \in DOMAIN lock_contracts
    /\ Status(lock_contracts[call.lock_contract_id]) = "Refunded"
    /\ Expired(call.lock_contract_id)

(* C6: withdraw reports the first guard that fails in the order lock       *)
(* exists (NotFound), caller = recipient (Unauthorized), status = Open     *)
(* (AlreadySettled), hash(preimage) = secret_hash (SecretMismatch); refund *)
(* in the order lock exists (NotFound), caller = sender (Unauthorized),    *)
(* status = Open (AlreadySettled), block_timestamp >= endtime              *)
(* (TimelockNotExpired).  A failing call changes nothing and requests no   *)
(* transfer.                                                                *)
FirstFailure(guards) ==
    IF ~guards[1][1] THEN guards[1][2]
    ELSE IF ~guards[2][1] THEN guards[2][2]
    ELSE IF ~guards[3][1] THEN guards[3][2]
    ELSE IF ~guards[4][1] THEN guards[4][2]
    ELSE "Success"

WithdrawGuards(caller, id, preimage) ==
    LET exists == id \in DOMAIN lock_contracts IN
    << <<exists, "NotFound">>,
       <<exists /\ caller = lock_contracts[id].recipient, "Unauthorized">>,
       <<exists /\ Status(lock_contracts[id]) = "Open", "AlreadySettled">>,
       <<exists /\ Sha256(preimage) = lock_contracts[id].secret_hash, "SecretMismatch">> >>

RefundGuards(caller, id) ==
    LET exists == id \in DOMAIN lock_contracts IN
    << <<exists, "NotFound">>,
       <<exists /\ caller = lock_contracts[id].sender, "Unauthorized">>,
       <<exists /\ Status(lock_contracts[id]) = "Open", "AlreadySettled">>,
       <<exists /\ block_timestamp >= lock_contracts[id].endtime, "TimelockNotExpired">> >>

C6_FirstFailingGuard ==
    \A caller \in Accounts, id \in LockIds :
        /\ ErrorKind(refund_check(caller, id)) = FirstFailure(RefundGuards(caller, id))
        /\ \A preimage \in Preimages :
              ErrorKind(withdraw_check(caller, id, preimage))
                  = FirstFailure(WithdrawGuards(caller, id, preimage))

C6_FailureChangesNothing ==
    ((Returned("withdraw") \/ Returned("refund")) /\ call'.result # OK) => NothingChanged

C6_GuardOrder == []C6_FirstFailingGuard /\ [][C6_FailureChangesNothing]_vars

(* Someone other than the recipient tried to withdraw a refunded lock and  *)
(* was told so, not that the lock is settled.                               *)
C6_Witness ==
    /\ call.method = "withdraw"
    /\ call.result = "Not the recipient"
    /\ call.lock_contract_id \in DOMAIN lock_contracts
    /\ Status(lock_contracts[call.lock_contract_id]) = "Refunded"

(* C7: a withdraw whose preimage does not hash to the lock's secret_hash   *)
(* never succeeds and changes nothing.  It fails with SecretMismatch when  *)
(* the caller is the recipient and the lock is Open; a caller other than   *)
(* the recipient is turned away with Unauthorized, and the recipient of a  *)
(* settled lock with AlreadySettled, before the preimage is looked at.     *)
WrongPreimage(id, preimage) ==
    /\ id \in DOMAIN lock_contracts
    /\ Sha256(preimage) # lock_contracts[id].secret_hash

C7_WrongPreimageFails ==
    \A caller \in Accounts, id \in DOMAIN lock_contracts, preimage \in Preimages :
        WrongPreimage(id, preimage) =>
            ErrorKind(withdraw_check(caller, id, preimage)) =
                IF caller # lock_contracts[id].recipient THEN "Unauthorized"
                ELSE IF Status(lock_contracts[id]) # "Open" THEN "AlreadySettled"
                ELSE "SecretMismatch"

C7_WithdrawStep ==
    Returned("withdraw") =>
        IF call'.result = OK
        THEN Sha256(lock_contracts'[call'.lock_contract_id].preimage)
                 = lock_contracts[call'.lock_contract_id].secret_hash
        ELSE NothingChanged

C7_SecretMismatch == []C7_WrongPreimageFails /\ [][C7_WithdrawStep]_vars

(* C7 as stated: whoever calls, a wrong preimage is answered with          *)
(* SecretMismatch.                                                          *)
C7_AlwaysSecretMismatch ==
    \A caller \in Accounts, id \in DOMAIN lock_contracts, preimage \in Preimages :
        WrongPreimage(id, preimage) =>
            ErrorKind(withdraw_check(caller, id, preimage)) = "SecretMismatch"

(* The recipient of an Open lock has just presented a wrong preimage. *)
C7_Witness ==
    /\ call.method = "withdraw"
    /\ call.result = "Secret hash does not match"
    /\ call.lock_contract_id \in DOMAIN lock_contracts
    /\ Status(lock_contracts[call.lock_contract_id]) = "Open"
    /\ lock_contracts[call.lock_contract_id].preimage = ""

(* C8: a withdraw or refund on a lock that is already Withdrawn or         *)
(* Refunded never succeeds, leaves every stored record as it was and       *)
(* requests no transfer.  It fails with AlreadySettled when the caller is  *)
(* the party the call belongs to (the recipient for withdraw, the sender   *)
(* for refund), and with Unauthorized for any other caller.                *)
C8_TerminalFails ==
    \A caller \in Accounts, id \in DOMAIN lock_contracts :
        Terminal(lock_contracts[id]) =>
            /\ ErrorKind(refund_check(caller, id)) =
                  IF caller = lock_contracts[id].sender
                  THEN "AlreadySettled" ELSE "Unauthorized"
            /\ \A preimage \in Preimages :
                  ErrorKind(withdraw_check(caller, id, preimage)) =
                      IF caller = lock_contracts[id].recipient
                      THEN "AlreadySettled" ELSE "Unauthorized"

C8_TerminalStep ==
    LET id == call'.lock_contract_id IN
    ( /\ Returned("withdraw") \/ Returned("refund")
      /\ id \in DOMAIN lock_contracts
      /\ Terminal(lock_contracts[id]) ) =>
        /\ call'.result # OK
        /\ lock_contracts' = lock_contracts
        /\ promises' = promises

C8_TerminalIdempotence == []C8_TerminalFails /\ [][C8_TerminalStep]_vars

(* C8 as stated: every withdraw or refund on a terminal lock is answered   *)
(* with AlreadySettled.                                                     *)
C8_AlwaysAlreadySettled ==
    \A caller \in Accounts, id \in DOMAIN lock_contracts :
        Terminal(lock_contracts[id]) =>
            /\ ErrorKind(refund_check(caller, id)) = "AlreadySettled"
            /\ \A preimage \in Preimages :
                  ErrorKind(withdraw_check(caller, id, preimage)) = "AlreadySettled"

(* A withdrawn lock, its preimage on record, on which someone other than   *)
(* the sender has just called refund.                                       *)
C8_Witness ==
    /\ call.method = "refund"
    /\ call.result = "Not the sender"
    /\ call.lock_contract_id \in DOMAIN lock_contracts
    /\ Terminal(lock_contracts[call.lock_contract_id])
    /\ TransferCount(call.lock_contract_id) = 1

(* C9: initiate_swap with amount = 0 fails with InvalidInput, and a failed *)
(* initiate_swap inserts no record, changes no record and requests no      *)
(* transfer; every lock in the registry has amount > 0.                    *)
C9_ZeroAmountRejected ==
    \A r \in SwapRequests, checked \in BOOLEAN :
        r.amount = 0 =>
            ErrorKind(initiate_swap_check(r.caller, r.secret_hash, r.recipient,
                                          r.amount, r.timeout_hours, checked))
                = "InvalidInput"

C9_AmountsPositive ==
    /\ \A id \in DOMAIN lock_contracts : lock_contracts[id].amount > 0
    /\ \A p \in BagToSet(promises) : p.amount > 0

C9_FailedInitiateStep ==
    (Returned("initiate_swap") /\ call'.result # OK) => NothingChanged

C9_ZeroAmount ==
    /\ []C9_ZeroAmountRejected
    /\ []C9_AmountsPositive
    /\ [][C9_FailedInitiateStep]_vars

(* A zero-amount initiate_swap has just been turned away while a lock is   *)
(* in the registry.                                                         *)
C9_Witness ==
    /\ call.method = "initiate_swap"
    /\ call.result = "Amount must be greater than 0"
    /\ DOMAIN lock_contracts # {}

(* C10: the lock id is a function of (secret_hash, recipient, caller,      *)
(* amount, endtime, block_timestamp): an initiate_swap that gets as far as *)
(* deriving an id that is already in the registry fails with               *)
(* DuplicateLock; a successful one inserts a record under an id that was   *)
(* not there and leaves the others alone; every key is the id of its       *)
(* record's fields, and was funded by exactly one ft_transfer_call.        *)
DerivedId(r) ==
    LockId(r.secret_hash, r.recipient, r.caller, r.amount,
           Endtime(block_timestamp, r.timeout_hours), block_timestamp)

C10_DuplicateRejected ==
    \A r \in SwapRequests, checked \in BOOLEAN :
        ( /\ r.amount > 0
          /\ ~(checked /\ EndtimeOverflows(block_timestamp, r.timeout_hours))
          /\ has_lock_contract(DerivedId(r)) ) =>
            ErrorKind(initiate_swap_check(r.caller, r.secret_hash, r.recipient,
                                          r.amount, r.timeout_hours, checked))
                = "DuplicateLock"

C10_OneLockPerId ==
    \A id \in DOMAIN lock_contracts :
        /\ \E ts \in 0..MaxU64 :
              id = LockId(lock_contracts[id].secret_hash, lock_contracts[id].recipient,
                          lock_contracts[id].sender, lock_contracts[id].amount,
                          lock_contracts[id].endtime, ts)
        /\ CopiesIn(Promise("ft_transfer_call", CONTRACT, lock_contracts[id].amount, id),
                    promises) = 1

C10_InitiateStep ==
    Returned("initiate_swap") =>
        IF call'.result = OK
        THEN /\ call'.lock_contract_id \notin DOMAIN lock_contracts
             /\ DOMAIN lock_contracts' = DOMAIN lock_contracts \cup {call'.lock_contract_id}
             /\ \A id \in DOMAIN lock_contracts : lock_contracts'[id] = lock_contracts[id]
        ELSE /\ lock_contracts' = lock_contracts
             /\ promises' = promises

C10_DuplicateLock ==
    /\ []C10_DuplicateRejected
    /\ []C10_OneLockPerId
    /\ [][C10_InitiateStep]_vars

(* The arguments of a lock that has since been withdrawn were repeated at  *)
(* the timestamp at which it was created.                                   *)
C10_Witness ==
    /\ call.method = "initiate_swap"
    /\ call.result = "Lock contract already exists"
    /\ \E id \in DOMAIN lock_contracts : Status(lock_contracts[id]) = "Withdrawn"

(* C11: complete_swap called by an account that is not in the relayer set  *)
(* at that moment (the owner included, and an account that was a relayer   *)
(* and has been removed) fails with Unauthorized and changes nothing: no   *)
(* mint is requested.  A mint is only ever requested by a successful       *)
(* complete_swap, while some account is a relayer.                          *)
C11_NonRelayerRejected ==
    \A caller \in Accounts :
        ~is_relayer(caller) => ErrorKind(complete_swap_check(caller)) = "Unauthorized"

C11_CompleteStep ==
    /\ (Returned("complete_swap") /\ call'.result # OK) => NothingChanged
    /\ Mints' # Mints =>
          /\ Returned("complete_swap")
          /\ call'.result = OK
          /\ relayers # {}

C11_OnlyRelayersMint == []C11_NonRelayerRejected /\ [][C11_CompleteStep]_vars

(* A relayer minted and was removed; with no relayer left, a complete_swap *)
(* has just been turned away.                                               *)
C11_Witness ==
    /\ call.method = "complete_swap"
    /\ call.result = "Not an authorized relayer"
    /\ relayers = {}
    /\ BagCardinality(Mints) > 0

(* C12: once the owner has added R, complete_swap called by R succeeds,    *)
(* whatever its arguments and whatever was minted before, and requests one *)
(* ft_mint of amount to destination; each successful call adds one more    *)
(* mint to those requested, so identical calls are each minted.            *)
C12_RelayerAccepted ==
    \A caller \in Accounts : is_relayer(caller) => complete_swap_check(caller) = OK

C12_AddStep ==
    (Returned("add_relayer") /\ call'.result = OK) =>
        \E account_id \in Accounts :
            /\ relayers' = relayers \cup {account_id}
            /\ complete_swap_check(account_id)' = OK

C12_MintStep ==
    (Returned("complete_swap") /\ call'.result = OK) =>
        /\ \E destination \in CompletionDestinations, amount \in CompletionAmounts :
              promises' = promises (+) SetToBag({Promise("ft_mint", destination, amount, NO_LOCK)})
        /\ BagCardinality(Mints') = BagCardinality(Mints) + 1
        /\ UNCHANGED <<lock_contracts, relayers, funding, transfers>>

C12_EveryCompletionMints ==
    /\ []C12_RelayerAccepted
    /\ [][C12_AddStep]_vars
    /\ [][C12_MintStep]_vars

(* The same mint has been requested twice. *)
C12_Witness ==
    /\ call.method = "complete_swap"
    /\ call.result = OK
    /\ \E destination \in CompletionDestinations, amount \in CompletionAmounts :
          CopiesIn(Promise("ft_mint", destination, amount, NO_LOCK), promises) = 2

(* C13: the owner is the account that deployed the contract, for good.     *)
(* add_relayer or remove_relayer called by anyone else fails and leaves    *)
(* the relayer set as it was; called by the owner, add_relayer(x) puts x   *)
(* in the set and remove_relayer(x) takes it out, leaving every other      *)
(* account's membership alone (and the whole set, if x was already in or   *)
(* out); nothing else changes the set.  So x is a relayer exactly when the *)
(* owner's last toggle for x was add_relayer.                               *)
C13_OwnerFixed == owner_id = DEPLOYER

C13_ToggleStep ==
    \A caller \in Accounts, account_id \in Accounts :
        /\ add_relayer(caller, account_id) =>
              IF caller = DEPLOYER
              THEN /\ call'.result = OK
                   /\ relayers' = relayers \cup {account_id}
                   /\ is_relayer(account_id)'
              ELSE /\ ErrorKind(call'.result) = "Unauthorized"
                   /\ relayers' = relayers
        /\ remove_relayer(caller, account_id) =>
              IF caller = DEPLOYER
              THEN /\ call'.result = OK
                   /\ relayers' = relayers \ {account_id}
                   /\ ~is_relayer(account_id)'
              ELSE /\ ErrorKind(call'.result) = "Unauthorized"
                   /\ relayers' = relayers

C13_OnlyToggles ==
    relayers' # relayers =>
        /\ Returned("add_relayer") \/ Returned("remove_relayer")
        /\ call'.result = OK

C13_RelayerToggles ==
    /\ []C13_OwnerFixed
    /\ [][C13_ToggleStep]_vars
    /\ [][C13_OnlyToggles]_vars

(* With two relayers in the set, someone other than the owner has just     *)
(* been refused a change to it.                                             *)
C13_Witness ==
    /\ call.method \in {"add_relayer", "remove_relayer"}
    /\ call.result = "Not the owner"
    /\ Cardinality(relayers) = 2

(* C14: when the ledger reports that the funding transfer of a lock        *)
(* failed, on_ft_transfer_call fails with TransferFailed and rolls nothing *)
(* back: the callback leaves the registry and the promises as they are, so *)
(* the lock stays in the registry with its status and fields, and while it *)
(* is Open withdraw (recipient, matching preimage) and refund (sender,     *)
(* from endtime on) pass their guards as for a funded lock.                *)
C14_CallbackStep ==
    /\ Returned("on_ft_transfer_call") =>
          /\ lock_contracts' = lock_contracts
          /\ promises' = promises
          /\ transfers' = transfers
    /\ \A id \in DOMAIN funding :
          (funding[id] # "failed" /\ funding'[id] = "failed") =>
              /\ Returned("on_ft_transfer_call")
              /\ ErrorKind(call'.result) = "TransferFailed"
              /\ call'.lock_contract_id = id

C14_UnfundedLockUsable ==
    \A id \in DOMAIN funding :
        funding[id] = "failed" =>
            /\ id \in DOMAIN lock_contracts
            /\ Status(lock_contracts[id]) = "Open" =>
                  /\ \A preimage \in Preimages :
                        Sha256(preimage) = lock_contracts[id].secret_hash =>
                            withdraw_check(lock_contracts[id].recipient, id, preimage) = OK
                  /\ block_timestamp >= lock_contracts[id].endtime =>
                        refund_check(lock_contracts[id].sender, id) = OK

C14_NoRollback == [][C14_CallbackStep]_vars /\ []C14_UnfundedLockUsable

(* A lock whose funding failed has been withdrawn all the same. *)
C14_Witness ==
    /\ call.method = "withdraw"
    /\ call.result = OK
    /\ call.lock_contract_id \in DOMAIN funding
    /\ funding[call.lock_contract_id] = "failed"
    /\ Status(lock_contracts[call.lock_contract_id]) = "Withdrawn"

(* C15: when the ft_transfer requested by a successful withdraw or refund  *)
(* fails, the contract gets to know: the promise has a callback in which   *)
(* the failure could be logged or compensated.                              *)
C15_TransferFailureObserved ==
    \A id \in DOMAIN transfers :
        transfers[id] = "failed" =>
            /\ Terminal(lock_contracts[id])
            /\ \A p \in TransfersFor(id) : Callback(p) # "none"

(* C16: execute_on_evm is refused to a caller who is neither the owner nor *)
(* a relayer; for the owner or a relayer it succeeds exactly when the      *)
(* chain id is a number, the contract address is "0x" followed by 40 hex   *)
(* digits and the calldata is not empty, and fails with InvalidInput       *)
(* otherwise.                                                               *)
HexDigits == Digits \cup {"a", "b", "c", "d", "e", "f", "A", "B", "C", "D", "E", "F"}

IsHexAddress(s) ==
    /\ StartsWith0x(s)
    /\ Len(s) = 42
    /\ \A i \in 3..Len(s) : s[i] \in HexDigits

C16_EvmInputValidated ==
    \A caller \in Accounts, q \in EvmRequests :
        LET r == execute_on_evm_check(caller, q.evm_chain_id, q.contract_address, q.calldata)
        IN  IF ~(is_relayer(caller) \/ caller = owner_id)
            THEN ErrorKind(r) = "Unauthorized"
            ELSE IF /\ ParsesAsU64(q.evm_chain_id)
                    /\ IsHexAddress(q.contract_address)
                    /\ q.calldata # << >>
            THEN r = OK
            ELSE ErrorKind(r) = "InvalidInput"

(* C17, without the source of the transfer: a successful initiate_swap     *)
(* adds exactly one record, under the id                                    *)
(* it returns: Open, with an empty preimage, sender = caller, endtime =    *)
(* block_timestamp + timeout and the given secret_hash, recipient, amount, *)
(* target_chain and target_address; it leaves every other record as it     *)
(* was, and requests exactly one ft_transfer_call, with callback           *)
(* on_ft_transfer_call, of amount to the contract.  The call returns with  *)
(* the funding still pending, and no funding is ever requested for an id   *)
(* that is not in the registry.                                             *)
C17_InitiateStep ==
    (Returned("initiate_swap") /\ call'.result = OK) =>
        LET id == call'.lock_contract_id
            lc == lock_contracts'[id]
            funded == Promise("ft_transfer_call", CONTRACT, lc.amount, id)
        IN  /\ id \notin DOMAIN lock_contracts
            /\ DOMAIN lock_contracts' = DOMAIN lock_contracts \cup {id}
            /\ \A other \in DOMAIN lock_contracts : lock_contracts'[other] = lock_contracts[other]
            /\ Status(lc) = "Open"
            /\ lc.preimage = ""
            /\ lc.target_chain = TARGET_CHAIN
            /\ lc.target_address = TARGET_ADDRESS
            /\ \E q \in SwapRequests :
                  /\ lc.sender = q.caller
                  /\ lc.secret_hash = q.secret_hash
                  /\ lc.recipient = q.recipient
                  /\ lc.amount = q.amount
                  /\ lc.endtime = Endtime(block_timestamp, q.timeout_hours)
                  /\ id = LockId(q.secret_hash, q.recipient, q.caller, q.amount,
                                 lc.endtime, block_timestamp)
            /\ promises' = promises (+) SetToBag({funded})
            /\ Callback(funded) = "on_ft_transfer_call"
            /\ id \notin DOMAIN funding
            /\ funding' = Insert(funding, id, "pending")
            /\ UNCHANGED <<token, owner_id, relayers, transfers>>

C17_FundingHasRecord ==
    /\ DOMAIN funding = DOMAIN lock_contracts
    /\ \A p \in BagToSet(promises) :
          p.method = "ft_transfer_call" =>
              /\ p.lock_contract_id \in DOMAIN lock_contracts
              /\ p.receiver_id = CONTRACT
              /\ p.amount = lock_contracts[p.lock_contract_id].amount
              /\ promises[p] = 1

C17_InitiateEffect == [][C17_InitiateStep]_vars /\ []C17_FundingHasRecord

(* C17 as stated, with the source of the transfer: all of the above, and   *)
(* the ft_transfer_call that a successful initiate_swap requests moves the  *)
(* amount from the caller, the lock's sender, to the contract.              *)
C17_FromCallerStep ==
    (Returned("initiate_swap") /\ call'.result = OK) =>
        LET id == call'.lock_contract_id
            lc == lock_contracts'[id]
            funded == Promise("ft_transfer_call", CONTRACT, lc.amount, id)
        IN  /\ BagIn(funded, promises')
            /\ TransferFrom(funded) = lc.sender
            /\ funded.receiver_id = CONTRACT

C17_FundedByCaller ==
    /\ [][C17_InitiateStep /\ C17_FromCallerStep]_vars
    /\ []C17_FundingHasRecord

(* A second lock has just been created next to one that was withdrawn, its *)
(* id returned while its funding is pending.                                *)
C17_Witness ==
    /\ call.method = "initiate_swap"
    /\ call.result = OK
    /\ funding[call.lock_contract_id] = "pending"
    /\ Status(lock_contracts[call.lock_contract_id]) = "Open"
    /\ \E other \in DOMAIN lock_contracts :
          /\ other # call.lock_contract_id
          /\ Status(lock_contracts[other]) = "Withdrawn"

(* C18: withdraw and refund write the terminal status in the call that     *)
(* requests the ft_transfer, so a transfer is only ever requested for a    *)
(* lock that is already Withdrawn or Refunded.  From then on, with the     *)
(* transfer in flight, succeeded or failed, every withdraw or refund on    *)
(* that lock fails: with AlreadySettled when the caller is the recipient   *)
(* (withdraw) or the sender (refund), with Unauthorized for anyone else.   *)
C18_StatusBeforeTransfer ==
    /\ DOMAIN transfers = {id \in DOMAIN lock_contracts : Terminal(lock_contracts[id])}
    /\ \A id \in DOMAIN lock_contracts : TransferCount(id) > 0 => id \in DOMAIN transfers

C18_SettledWhileInFlight ==
    \A id \in DOMAIN transfers, caller \in Accounts :
        /\ ErrorKind(refund_check(caller, id)) =
              IF caller = lock_contracts[id].sender THEN "AlreadySettled" ELSE "Unauthorized"
        /\ \A preimage \in Preimages :
              ErrorKind(withdraw_check(caller, id, preimage)) =
                  IF caller = lock_contracts[id].recipient
                  THEN "AlreadySettled" ELSE "Unauthorized"

C18_SettleStep ==
    ((Returned("withdraw") \/ Returned("refund")) /\ call'.result = OK) =>
        /\ call'.lock_contract_id \notin DOMAIN transfers
        /\ Terminal(lock_contracts'[call'.lock_contract_id])
        /\ transfers' = Insert(transfers, call'.lock_contract_id, "pending")

C18_NoReentrancy ==
    /\ []C18_StatusBeforeTransfer
    /\ []C18_SettledWhileInFlight
    /\ [][C18_SettleStep]_vars

(* C18 as stated: every withdraw or refund on a lock whose transfer has    *)
(* been requested is answered with AlreadySettled.                          *)
C18_AlwaysAlreadySettled ==
    \A id \in DOMAIN transfers, caller \in Accounts :
        /\ ErrorKind(refund_check(caller, id)) = "AlreadySettled"
        /\ \A preimage \in Preimages :
              ErrorKind(withdraw_check(caller, id, preimage)) = "AlreadySettled"

(* The transfer of a withdrawn lock failed, and the sender's refund was    *)
(* refused all the same.                                                    *)
C18_Witness ==
    /\ call.method = "refund"
    /\ call.result = "Already withdrawn"
    /\ call.lock_contract_id \in DOMAIN transfers
    /\ transfers[call.lock_contract_id] = "failed"

(* C19: a record, once in the registry, stays there, and its secret_hash,  *)
(* sender, recipient, amount, endtime, target_chain and target_address     *)
(* never change; a record changes only in a successful withdraw of that    *)
(* lock, which sets withdrawn and the preimage, or a successful refund of  *)
(* it, which sets refunded.                                                 *)
C19_RecordStep ==
    \A id \in DOMAIN lock_contracts :
        /\ has_lock_contract(id)'
        /\ lock_contracts'[id].secret_hash = lock_contracts[id].secret_hash
        /\ lock_contracts'[id].sender = lock_contracts[id].sender
        /\ lock_contracts'[id].recipient = lock_contracts[id].recipient
        /\ lock_contracts'[id].amount = lock_contracts[id].amount
        /\ lock_contracts'[id].endtime = lock_contracts[id].endtime
        /\ lock_contracts'[id].target_chain = lock_contracts[id].target_chain
        /\ lock_contracts'[id].target_address = lock_contracts[id].target_address
        /\ lock_contracts'[id] # lock_contracts[id] =>
              /\ call'.result = OK
              /\ call'.lock_contract_id = id
              /\ \/ /\ Returned("withdraw")
                    /\ lock_contracts'[id].withdrawn
                    /\ lock_contracts'[id].refunded = lock_contracts[id].refunded
                 \/ /\ Returned("refund")
                    /\ lock_contracts'[id].refunded
                    /\ lock_contracts'[id].withdrawn = lock_contracts[id].withdrawn
                    /\ lock_contracts'[id].preimage = lock_contracts[id].preimage

C19_RecordsPermanent == [][C19_RecordStep]_vars

(* A withdrawn lock, its preimage on record, after a later execute_on_evm. *)
C19_Witness ==
    /\ call.method = "execute_on_evm"
    /\ call.result = OK
    /\ \E id \in DOMAIN lock_contracts :
          /\ Status(lock_contracts[id]) = "Withdrawn"
          /\ lock_contracts[id].preimage # ""
          /\ lock_contracts[id].amount > 0

(* C20: complete_swap, execute_on_evm, add_relayer, remove_relayer, the    *)
(* funding callback and the views has_lock_contract, get_lock_contract and *)
(* is_relayer leave the whole registry as it is, whether they succeed or   *)
(* fail; the registry changes only in a successful initiate_swap, withdraw *)
(* or refund, and a lock leaves Open only in a successful withdraw or      *)
(* refund of that lock.                                                     *)
OtherMethods ==
    {"complete_swap", "execute_on_evm", "add_relayer", "remove_relayer",
     "on_ft_transfer_call", "has_lock_contract", "get_lock_contract", "is_relayer"}

C20_OtherStep ==
    call'.method \in OtherMethods => lock_contracts' = lock_contracts

C20_RegistryStep ==
    lock_contracts' # lock_contracts =>
        /\ call'.method \in {"initiate_swap", "withdraw", "refund"}
        /\ call'.result = OK

C20_LeaveOpenStep ==
    \A id \in DOMAIN lock_contracts :
        (Status(lock_contracts[id]) = "Open" /\ Status(lock_contracts'[id]) # "Open") =>
            /\ call'.method \in {"withdraw", "refund"}
            /\ call'.result = OK
            /\ call'.lock_contract_id = id

C20_RegistryFrame ==
    /\ [][C20_OtherStep]_vars
    /\ [][C20_RegistryStep]_vars
    /\ [][C20_LeaveOpenStep]_vars

(* The view of an Open lock whose funding failed has just been read: the   *)
(* failed callback did not take it out of the registry.                     *)
C20_Witness ==
    /\ call.method = "get_lock_contract"
    /\ call.result = "Some"
    /\ funding[call.lock_contract_id] = "failed"
    /\ Status(lock_contracts[call.lock_contract_id]) = "Open"
    /\ relayers # {}

(* C21: every lock in the registry has endtime equal to the timestamp of   *)
(* its creation plus the timeout it was requested with, not reduced modulo *)
(* the range of u64, and so not before its creation.                        *)
CreatedAt(id) ==
    CHOOSE ts \in 0..MaxU64 :
        id = LockId(lock_contracts[id].secret_hash, lock_contracts[id].recipient,
                    lock_contracts[id].sender, lock_contracts[id].amount,
                    lock_contracts[id].endtime, ts)

C21_EndtimeExact ==
    \A id \in DOMAIN lock_contracts :
        /\ lock_contracts[id].endtime >= CreatedAt(id)
        /\ \E q \in SwapRequests \cup OverflowRequests :
              /\ q.caller = lock_contracts[id].sender
              /\ q.recipient = lock_contracts[id].recipient
              /\ q.secret_hash = lock_contracts[id].secret_hash
              /\ q.amount = lock_contracts[id].amount
              /\ lock_contracts[id].endtime
                    = CreatedAt(id) + q.timeout_hours * NANOS_PER_HOUR

(* C22: in every state a Withdrawn lock stores a preimage whose hash is    *)
(* its secret_hash and an Open or Refunded lock stores the empty preimage; *)
(* no step changes the preimage of a lock that is Withdrawn or that        *)
(* already stores a non-empty preimage.                                     *)
C22_PreimageOfStatus ==
    \A id \in DOMAIN lock_contracts :
        /\ Status(lock_contracts[id]) = "Withdrawn"
              => Sha256(lock_contracts[id].preimage) = lock_contracts[id].secret_hash
        /\ Status(lock_contracts[id]) \in {"Open", "Refunded"}
              => lock_contracts[id].preimage = ""

C22_PreimageKept ==
    \A id \in DOMAIN lock_contracts :
        lock_contracts[id].withdrawn \/ lock_contracts[id].preimage # ""
            => /\ id \in DOMAIN lock_contracts'
               /\ lock_contracts'[id].preimage = lock_contracts[id].preimage

C22_StoredPreimage == []C22_PreimageOfStatus /\ [][C22_PreimageKept]_vars

(* A lock withdrawn with its secret is hit by a withdraw with another      *)
(* preimage, which fails and leaves the stored secret in place.            *)
C22_Witness ==
    /\ call.method = "withdraw"
    /\ call.result = "Already withdrawn"
    /\ call.lock_contract_id \in DOMAIN lock_contracts
    /\ lock_contracts[call.lock_contract_id].preimage = "s3cr3t"
    /\ lock_contracts[call.lock_contract_id].secret_hash = Sha256("s3cr3t")

(* C23: in every state the amounts of the ft_transfer payouts requested by *)
(* withdraw and refund add up to no more than the amounts of the locks     *)
(* whose funding transfer was confirmed, and a payout has been requested   *)
(* only for locks whose own funding transfer was confirmed.                *)
RECURSIVE PayoutsRequested(_)
PayoutsRequested(ids) ==
    IF ids = {} THEN 0
    ELSE LET id == CHOOSE x \in ids : TRUE IN
         lock_contracts[id].amount * TransferCount(id) + PayoutsRequested(ids \ {id})

RECURSIVE FundingConfirmed(_)
FundingConfirmed(ids) ==
    IF ids = {} THEN 0
    ELSE LET id == CHOOSE x \in ids : TRUE IN
         (IF funding[id] = "confirmed" THEN lock_contracts[id].amount ELSE 0)
             + FundingConfirmed(ids \ {id})

C23_Solvency ==
    /\ PayoutsRequested(DOMAIN lock_contracts) <= FundingConfirmed(DOMAIN lock_contracts)
    /\ \A id \in DOMAIN lock_contracts :
          TransferCount(id) > 0 => funding[id] = "confirmed"

(* C24: with a clock that keeps advancing and a sender whose refund is     *)
(* weakly fair once it is due, every lock that initiate_swap has stored    *)
(* eventually is Withdrawn or Refunded, whatever the recipient, the        *)
(* funding callback and the ledger do.                                      *)
C24_NoLockStuckOpen ==
    \A id \in PossibleLockIds :
        has_lock_contract(id) ~> (has_lock_contract(id) /\ Terminal(lock_contracts[id]))

(* The sender refunds a lock whose funding transfer failed and whose       *)
(* secret was never presented.                                              *)
C24_Witness ==
    /\ call.method = "refund"
    /\ call.result = OK
    /\ call.lock_contract_id \in PossibleLockIds
    /\ funding[call.lock_contract_id] = "failed"
    /\ Status(lock_contracts[call.lock_contract_id]) = "Refunded"
    /\ lock_contracts[call.lock_contract_id].preimage = ""

====
